---- MODULE Spec2Model ----
(***************************************************************************)
(* Resume parser / ranker: the ranking engine (ranker.py) and the          *)
(* heuristic field extractors (parser.py) as state machines.               *)
(*                                                                         *)
(* A Python str is a sequence of one-character strings, so that lower(),   *)
(* strip(), title(), split(), join() and the regular expressions are       *)
(* computed character by character.  Scores are fixed-point integers:      *)
(* tfidf and skill_match in units of 1/Scale, final_score in units of      *)
(* 1/(AlphaDen*Scale), alpha in units of 1/AlphaDen.                       *)
(***************************************************************************)
EXTENDS Integers, Sequences, FiniteSets, TLC

\* ------------------------------------------------------------------------
\* Bounds of the model
\* ------------------------------------------------------------------------
MaxBatch == 2
Scale == 100
AlphaDen == 10

\* ------------------------------------------------------------------------
\* Characters and strings
\* ------------------------------------------------------------------------
UpperChars == <<"A","B","C","D","E","F","G","H","I","J","K","L","M",
                "N","O","P","Q","R","S","T","U","V","W","X","Y","Z">>
LowerChars == <<"a","b","c","d","e","f","g","h","i","j","k","l","m",
                "n","o","p","q","r","s","t","u","v","w","x","y","z">>
DigitChars == {"0","1","2","3","4","5","6","7","8","9"}
Whitespace == {" ", "\t", "\n"}

\* code-point order of the characters the model uses
AsciiOrder == <<"\t", "\n", " ", "#", "(", ")", "+", ",", "-", ".",
                "0","1","2","3","4","5","6","7","8","9", ":">>
              \o UpperChars \o <<"_">> \o LowerChars

Range(s) == {s[i] : i \in DOMAIN s}
Min(S) == CHOOSE x \in S : \A y \in S : x <= y
Max(S) == CHOOSE x \in S : \A y \in S : x >= y

IsUpper(c) == c \in Range(UpperChars)
IsLower(c) == c \in Range(LowerChars)
IsLetter(c) == IsUpper(c) \/ IsLower(c)
IsDigit(c) == c \in DigitChars
\* \w of the re module
IsWordChar(c) == IsLetter(c) \/ IsDigit(c) \/ c = "_"

LowerChar(c) == IF IsUpper(c) THEN LowerChars[CHOOSE i \in DOMAIN UpperChars : UpperChars[i] = c] ELSE c
UpperChar(c) == IF IsLower(c) THEN UpperChars[CHOOSE i \in DOMAIN LowerChars : LowerChars[i] = c] ELSE c
Ord(c) == CHOOSE i \in DOMAIN AsciiOrder : AsciiOrder[i] = c

\* str.lower()
Lower(s) == [i \in DOMAIN s |-> LowerChar(s[i])]

\* str.strip()
Strip(s) ==
    LET keep == {i \in DOMAIN s : s[i] \notin Whitespace}
    IN  IF keep = {} THEN <<>> ELSE SubSeq(s, Min(keep), Max(keep))

\* str.title(): a letter is upper-cased when it follows a non-letter, lower-cased otherwise
Title(s) ==
    [i \in DOMAIN s |->
        IF i = 1 \/ ~IsLetter(s[i - 1]) THEN UpperChar(s[i]) ELSE LowerChar(s[i])]

\* str < str
LessStr(a, b) ==
    LET n == IF Len(a) < Len(b) THEN Len(a) ELSE Len(b)
        diff == {i \in 1..n : a[i] # b[i]}
    IN  IF diff = {} THEN Len(a) < Len(b)
        ELSE Ord(a[Min(diff)]) < Ord(b[Min(diff)])

\* sorted(S) for a set of strings
RECURSIVE SortedSeq(_)
SortedSeq(S) ==
    IF S = {} THEN <<>>
    ELSE LET m == CHOOSE x \in S : \A y \in S \ {x} : LessStr(x, y)
         IN  <<m>> \o SortedSeq(S \ {m})

\* sep.join(parts)
RECURSIVE Join(_, _)
Join(parts, sep) ==
    IF parts = <<>> THEN <<>>
    ELSE IF Len(parts) = 1 THEN parts[1]
    ELSE parts[1] \o sep \o Join(Tail(parts), sep)

\* s.split(','): the pieces between commas, empty pieces included
RECURSIVE SplitFrom(_, _, _)
SplitFrom(s, i, cur) ==
    IF i > Len(s) THEN <<cur>>
    ELSE IF s[i] = "," THEN <<cur>> \o SplitFrom(s, i + 1, <<>>)
    ELSE SplitFrom(s, i + 1, Append(cur, s[i]))

SplitComma(s) == SplitFrom(s, 1, <<>>)

\* Python's None, a value no str equals
None == <<"<None>">>

\* smallest r with r * r >= x
RECURSIVE SqrtSearch(_, _, _)
SqrtSearch(lo, hi, x) ==
    IF lo >= hi THEN lo
    ELSE LET mid == (lo + hi) \div 2
         IN  IF mid * mid >= x THEN SqrtSearch(lo, mid, x) ELSE SqrtSearch(mid + 1, hi, x)

CeilSqrt(x) == SqrtSearch(0, 46340, x)

\* ------------------------------------------------------------------------
\* TfidfVectorizer(stop_words='english', max_features=2000, ngram_range=(1,2))
\* ------------------------------------------------------------------------
max_features == 2000

\* the entries of the English stop-word list that the model's texts use
StopWords == { <<"t","h","e">>, <<"a","n">>, <<"a","n","d">>, <<"i","s">>, <<"n","o">> }

\* token_pattern (?u)\b\w\w+\b: the maximal runs of word characters of length >= 2
RECURSIVE TokensFrom(_, _, _)
TokensFrom(s, i, cur) ==
    LET emit == IF Len(cur) >= 2 THEN <<cur>> ELSE <<>>
    IN  IF i > Len(s) THEN emit
        ELSE IF IsWordChar(s[i]) THEN TokensFrom(s, i + 1, Append(cur, s[i]))
        ELSE emit \o TokensFrom(s, i + 1, <<>>)

Tokenize(s) == TokensFrom(s, 1, <<>>)

\* _word_ngrams for ngram_range (1,2): the unigrams, then the bigrams joined by a space
WordNgrams(tokens) ==
    IF Len(tokens) < 2 THEN tokens
    ELSE tokens \o [i \in 1..(Len(tokens) - 1) |-> tokens[i] \o <<" ">> \o tokens[i + 1]]

\* build_analyzer(): lowercase, tokenize, drop stop words, n-grams
Analyze(doc) ==
    LET NotStop(t) == t \notin StopWords
    IN  WordNgrams(SelectSeq(Tokenize(Lower(doc)), NotStop))

Count(seq, x) == Cardinality({i \in DOMAIN seq : seq[i] = x})

\* stable argsort of an integer array, ascending
RECURSIVE ArgsortFrom(_, _)
ArgsortFrom(arr, left) ==
    IF left = {} THEN <<>>
    ELSE LET m == CHOOSE i \in left :
                    \A j \in left \ {i} : arr[i] < arr[j] \/ (arr[i] = arr[j] /\ i < j)
         IN  <<m>> \o ArgsortFrom(arr, left \ {m})

Argsort(arr) == ArgsortFrom(arr, DOMAIN arr)

Reverse(s) == [i \in DOMAIN s |-> s[Len(s) + 1 - i]]

\* smooth idf, ln((1 + n) / (1 + df)) + 1, in tenths, for n documents
IdfTable ==
    << <<10>>,
       <<14, 10>>,
       <<17, 13, 10>>,
       <<19, 15, 12, 10>>,
       <<21, 17, 14, 12, 10>>,
       <<23, 18, 16, 13, 12, 10>>,
       <<24, 20, 17, 15, 13, 11, 10>> >>

Idf(n, df) == IdfTable[n][df]

\* sum of f[i] over the domain of a sequence of integers
RECURSIVE SumSeq(_)
SumSeq(f) == IF f = <<>> THEN 0 ELSE Head(f) + SumSeq(Tail(f))

\* _limit_features: with more than max_features terms, the max_features terms of
\* highest total count are kept, in sorted order
LimitFeatures(names, analyzed) ==
    IF Len(names) <= max_features THEN names
    ELSE LET negtf == [j \in DOMAIN names |->
                         0 - SumSeq([d \in DOMAIN analyzed |-> Count(analyzed[d], names[j])])]
             order == Argsort(negtf)
             kept == {order[k] : k \in 1..max_features}
             Kept(t) == \E j \in kept : names[j] = t
         IN  SelectSeq(names, Kept)

\* TfidfTransformer: the weight tf * idf of every feature in every document
TfidfWeights(names, analyzed) ==
    LET n == Len(analyzed)
        df == [j \in DOMAIN names |->
                 Cardinality({d \in DOMAIN analyzed : names[j] \in Range(analyzed[d])})]
    IN  [d \in DOMAIN analyzed |->
            [j \in DOMAIN names |->
                IF Count(analyzed[d], names[j]) = 0 THEN 0
                ELSE Count(analyzed[d], names[j]) * Idf(n, df[j])]]

\* fit_transform(texts): the fitted vocabulary (sorted feature names) and the
\* tf-idf matrix, one row per text; an empty vocabulary raises ValueError.
\* The rows are left unnormalised: the l2 norm scales a row by a positive
\* factor, which neither the cosine nor the order of a row's weights sees.
FitTransform(texts) ==
    LET analyzed == [d \in DOMAIN texts |-> Analyze(texts[d])]
        vocab == UNION {Range(analyzed[d]) : d \in DOMAIN texts}
        names == LimitFeatures(SortedSeq(vocab), analyzed)
    IN  IF vocab = {} THEN [ok |-> FALSE, names |-> <<>>, matrix |-> <<>>]
        ELSE [ok |-> TRUE, names |-> names, matrix |-> TfidfWeights(names, analyzed)]

\* a vectorizer that weighs the texts over the vocabulary of its previous fit
\* and learns the new vocabulary afterwards
RefitStale(old, texts) ==
    LET ft == FitTransform(texts)
    IN  IF old = <<>> \/ ~ft.ok THEN ft
        ELSE [ft EXCEPT !.matrix = TfidfWeights(old, [d \in DOMAIN texts |-> Analyze(texts[d])])]

\* self.vectorizer.fit_transform(texts) on a vectorizer whose fitted vocabulary
\* is old: every fit builds the vocabulary anew
Refit(old, texts) == FitTransform(texts)

Dot(a, b) ==
    SumSeq([j \in DOMAIN a |-> a[j] * b[j]])

\* cosine_similarity of two rows, rounded down to 1/Scale; a zero row gives 0
Cosine(a, b) ==
    LET na == Dot(a, a)
        nb == Dot(b, b)
    IN  IF na = 0 \/ nb = 0 THEN 0
        ELSE (Scale * Dot(a, b)) \div CeilSqrt(na * nb)

\* cosine_similarity(jd_vector, resumes_matrix).ravel()
CosineSimilarity(matrix) ==
    [i \in 1..(Len(matrix) - 1) |-> Cosine(matrix[1], matrix[i + 1])]

\* ------------------------------------------------------------------------
\* ResumeRanker
\* ------------------------------------------------------------------------
top_job_terms == 30

\* _safe_text
SafeText(t) == IF t # None THEN t ELSE <<>>

\* arr[-n:] of a numpy array or list (n >= 0; arr[-0:] is the whole array)
LastN(arr, n) ==
    IF n = 0 \/ n >= Len(arr) THEN arr ELSE SubSeq(arr, Len(arr) - n + 1, Len(arr))

\* _extract_top_terms_from_vector: the terms of the top_n highest weights that are
\* positive, by descending weight; feature_names[i] raises IndexError when the
\* array of names is shorter than the row
ExtractTopTerms(arr, feature_names, top_n) ==
    IF Len(arr) = 0 THEN [ok |-> TRUE, terms |-> <<>>]
    ELSE LET top_idx == Reverse(LastN(Argsort(arr), top_n))
             Positive(i) == arr[i] > 0
             picked == SelectSeq(top_idx, Positive)
         IN  IF \E k \in DOMAIN picked : picked[k] > Len(feature_names)
             THEN [ok |-> FALSE, terms |-> <<>>]
             ELSE [ok |-> TRUE, terms |-> [k \in DOMAIN picked |-> feature_names[picked[k]]]]

\* min(1.0, max(0.0, x)) in units of 1/Scale
Clamp01(x) == IF x < 0 THEN 0 ELSE IF x > Scale THEN Scale ELSE x

\* t.lower().strip()
Normalize(t) == Strip(Lower(t))

\* an overlap ratio over the resume's skills instead of the job's terms
ComputeSkillMatchOverResume(job_terms, resume_skills_list) ==
    IF job_terms = <<>> \/ resume_skills_list = <<>> THEN 0
    ELSE LET job_set == {Normalize(t) : t \in {x \in Range(job_terms) : x # <<>>}}
             resume_set == {Normalize(t) : t \in {x \in Range(resume_skills_list) : x # <<>>}}
             common == job_set \cap resume_set
         IN  IF job_set = {} THEN 0
             ELSE Clamp01((Scale * Cardinality(common)) \div Cardinality(resume_set))

\* _compute_skill_match
ComputeSkillMatch(job_terms, resume_skills_list) ==
    IF job_terms = <<>> \/ resume_skills_list = <<>> THEN 0
    ELSE LET job_set == {Normalize(t) : t \in {x \in Range(job_terms) : x # <<>>}}
             resume_set == {Normalize(t) : t \in {x \in Range(resume_skills_list) : x # <<>>}}
             common == job_set \cap resume_set
         IN  IF job_set = {} THEN 0
             ELSE Clamp01((Scale * Cardinality(common)) \div Cardinality(job_set))

\* rank_resumes, lines 95-99: skills_list as given (a list, a comma string, or
\* missing) to the list of its non-empty entries
SkillsList(r) ==
    LET NonEmpty(x) == x # <<>>
        skl == IF r.skills_list.kind = "str"
               THEN SelectSeq([i \in DOMAIN SplitComma(r.skills_list.str) |->
                                  Strip(SplitComma(r.skills_list.str)[i])], NonEmpty)
               ELSE IF r.skills_list.kind = "list" THEN r.skills_list.list
               ELSE <<>>
    IN  SelectSeq(skl, NonEmpty)

\* rank_resumes, line 101: the job description first, then the resumes
Texts(a) ==
    <<SafeText(a.job_description)>>
    \o [i \in DOMAIN a.resumes |-> SafeText(a.resumes[i].raw_text)]

\* alpha * tfidf_score + (1 - alpha) * skill_match, in units of 1/(AlphaDen * Scale)
Combine(al, tfidf_score, skill_match) ==
    al * tfidf_score + (AlphaDen - al) * skill_match

\* a combination that weighs both signals by alpha
FinalScoreBothAlpha(al, tfidf_score, skill_match) ==
    LET final_score == al * tfidf_score + al * skill_match
    IN  IF final_score < 0 THEN 0 ELSE final_score

\* lines 126-129: the combination, with a negative (or NaN) value replaced by 0
FinalScore(al, tfidf_score, skill_match) ==
    LET final_score == Combine(al, tfidf_score, skill_match)
    IN  IF final_score < 0 THEN 0 ELSE final_score

\* an insertion that puts x before the entries equal to it
RECURSIVE InsertDescBeforeEqual(_, _)
InsertDescBeforeEqual(sorted, x) ==
    IF sorted = <<>> THEN <<x>>
    ELSE IF Head(sorted).final_score > x.final_score
         THEN <<Head(sorted)>> \o InsertDescBeforeEqual(Tail(sorted), x)
         ELSE <<x>> \o sorted

\* list.sort(key=final_score, reverse=True): stable, descending
RECURSIVE InsertDesc(_, _)
InsertDesc(sorted, x) ==
    IF sorted = <<>> THEN <<x>>
    ELSE IF Head(sorted).final_score >= x.final_score
         THEN <<Head(sorted)>> \o InsertDesc(Tail(sorted), x)
         ELSE <<x>> \o sorted

RECURSIVE SortDesc(_)
SortDesc(seq) ==
    IF seq = <<>> THEN <<>>
    ELSE InsertDesc(SortDesc(SubSeq(seq, 1, Len(seq) - 1)), seq[Len(seq)])

\* an except branch that returns nothing
FallbackEmpty(resumes) == <<>>

\* lines 136-142: the except branch.  A result tuple is (id, final_score, meta);
\* pos is the loop index i it was built at, kept to tell apart equal candidates
Fallback(resumes) ==
    [i \in DOMAIN resumes |->
        [id |-> resumes[i].id, pos |-> i, final_score |-> 0, tfidf |-> 0, skill_match |-> 0]]

\* lines 109-134: scoring from the call's own tf-idf matrix and the feature names
\* read from the vectorizer; an exception anywhere leads to the except branch
Score(al, a, matrix, feature_names) ==
    LET tfidf_scores == CosineSimilarity(matrix)
        top == ExtractTopTerms(matrix[1], feature_names, a.top_job_terms)
        ranked == [i \in DOMAIN a.resumes |->
                     LET tfidf_score == IF i <= Len(tfidf_scores) THEN tfidf_scores[i] ELSE 0
                         skill_match == ComputeSkillMatch(top.terms, SkillsList(a.resumes[i]))
                     IN  [id |-> a.resumes[i].id,
                          pos |-> i,
                          final_score |-> FinalScore(al, tfidf_score, skill_match),
                          tfidf |-> tfidf_score,
                          skill_match |-> skill_match]]
    IN  IF top.ok THEN [path |-> "ranked", terms |-> top.terms, out |-> SortDesc(ranked)]
        ELSE [path |-> "fallback", terms |-> <<>>, out |-> Fallback(a.resumes)]


\* ------------------------------------------------------------------------
\* Regular expressions of the re module, as far as parser.py uses them: a
\* pattern is a sequence of items, each a word boundary \b or a character
\* class with a greedy repetition {min,max}
\* ------------------------------------------------------------------------
Boundary == [kind |-> "b", chars |-> {}, min |-> 0, max |-> 0]
Rep(chars, lo, hi) == [kind |-> "c", chars |-> chars, min |-> lo, max |-> hi]
Lit(c) == Rep({c}, 1, 1)

\* \b: exactly one of the two neighbouring characters is a word character
AtBoundary(text, pos) ==
    LET before == pos > 1 /\ pos - 1 <= Len(text) /\ IsWordChar(text[pos - 1])
        after == pos <= Len(text) /\ IsWordChar(text[pos])
    IN  before # after

\* how many characters from pos on are in chars, at most hi
RECURSIVE RunLen(_, _, _, _)
RunLen(text, pos, chars, hi) ==
    IF hi = 0 \/ pos > Len(text) THEN 0
    ELSE IF text[pos] \in chars THEN 1 + RunLen(text, pos + 1, chars, hi - 1)
    ELSE 0

\* the backtracking matcher: the position after the match of items k.. of pat
\* at pos, or 0; a repetition takes as many characters as it can and gives
\* them back one by one
RECURSIVE MatchAt(_, _, _, _)
RECURSIVE TryCount(_, _, _, _, _)
MatchAt(text, pos, pat, k) ==
    IF k > Len(pat) THEN pos
    ELSE IF pat[k].kind = "b"
         THEN IF AtBoundary(text, pos) THEN MatchAt(text, pos, pat, k + 1) ELSE 0
         ELSE TryCount(text, pos, pat, k, RunLen(text, pos, pat[k].chars, pat[k].max))

TryCount(text, pos, pat, k, n) ==
    IF n < pat[k].min THEN 0
    ELSE LET r == MatchAt(text, pos + n, pat, k + 1)
         IN  IF r # 0 THEN r ELSE TryCount(text, pos, pat, k, n - 1)

NoMatch == [found |-> FALSE, start |-> 0, end |-> 0]

\* pat.search(text): the match at the leftmost position that has one
Search(pat, text) ==
    LET starts == {p \in 1..(Len(text) + 1) : MatchAt(text, p, pat, 1) # 0}
    IN  IF starts = {} THEN NoMatch
        ELSE [found |-> TRUE, start |-> Min(starts), end |-> MatchAt(text, Min(starts), pat, 1)]

\* m.group(0)
Group0(text, m) == SubSeq(text, m.start, m.end - 1)

\* ------------------------------------------------------------------------
\* ResumeParser.extract_phone
\* ------------------------------------------------------------------------
Sep == Rep({"-", ".", " ", "\t", "\n"}, 0, 1)
Digits(lo, hi) == Rep(DigitChars, lo, hi)

\* \+91[-.\s]?\d{5}[-.\s]?\d{5}
PatIndia == <<Lit("+"), Lit("9"), Lit("1"), Sep, Digits(5, 5), Sep, Digits(5, 5)>>
\* \b0?\d{10}\b
PatTenDigits == <<Boundary, Rep({"0"}, 0, 1), Digits(10, 10), Boundary>>
\* \+?\d{1,3}[-.\s]?\(?\d{3,5}\)?[-.\s]?\d{3,5}[-.\s]?\d{3,5}
PatGeneric == <<Rep({"+"}, 0, 1), Digits(1, 3), Sep, Rep({"("}, 0, 1), Digits(3, 5),
                Rep({")"}, 0, 1), Sep, Digits(3, 5), Sep, Digits(3, 5)>>

patterns == <<PatIndia, PatTenDigits, PatGeneric>>

NotFound == <<"N","o","t"," ","f","o","u","n","d">>

\* a loop that lets a later pattern take over a match at the same offset
RECURSIVE FirstMatchLastWins(_, _, _, _)
FirstMatchLastWins(pats, text, k, first) ==
    IF k > Len(pats) THEN first
    ELSE LET m == Search(pats[k], text)
         IN  FirstMatchLastWins(pats, text, k + 1,
                 IF m.found /\ (~first.found \/ m.start <= first.start) THEN m ELSE first)

\* lines 107-111: the loop over the patterns
RECURSIVE FirstMatch(_, _, _, _)
FirstMatch(pats, text, k, first) ==
    IF k > Len(pats) THEN first
    ELSE LET m == Search(pats[k], text)
         IN  FirstMatch(pats, text, k + 1,
                 IF m.found /\ (~first.found \/ m.start < first.start) THEN m ELSE first)

\* extract_phone with the patterns tried in the order pats
ExtractPhoneWith(pats, text) ==
    LET first == FirstMatch(pats, text, 1, NoMatch)
    IN  IF first.found THEN Group0(text, first) ELSE NotFound

\* extract_phone
ExtractPhone(text) == ExtractPhoneWith(patterns, text)

\* ------------------------------------------------------------------------
\* ResumeParser.load_skills and extract_skills
\* ------------------------------------------------------------------------
NoSkillsDetected == <<"N","o"," ","s","k","i","l","l","s"," ","d","e","t","e","c","t","e","d">>

\* load_skills: the non-blank lines of the file, stripped and lower-cased; no
\* file, no skills
LoadSkills(file) ==
    IF ~file.exists THEN <<>>
    ELSE LET NonBlank(line) == Strip(line) # <<>>
             kept == SelectSeq(file.lines, NonBlank)
         IN  [i \in DOMAIN kept |-> Lower(Strip(kept[i]))]

\* re.compile(r"\b" + re.escape(skill) + r"\b")
SkillPattern(skill) == <<Boundary>> \o [i \in DOMAIN skill |-> Lit(skill[i])] \o <<Boundary>>

\* [s for s in found if not (s in seen or seen.add(s))]
RECURSIVE Dedupe(_, _)
Dedupe(found, seen) ==
    IF found = <<>> THEN <<>>
    ELSE IF Head(found) \in seen THEN Dedupe(Tail(found), seen)
    ELSE <<Head(found)>> \o Dedupe(Tail(found), seen \cup {Head(found)})

\* a version without the deduplication
SkillsFoundNoDedupe(skills, text) ==
    LET text_lower == Lower(text)
        Hit(skill) == Search(SkillPattern(skill), text_lower).found
        hits == SelectSeq(skills, Hit)
    IN  [i \in DOMAIN hits |-> Title(hits[i])]

\* lines 119-129: the local uniq
SkillsFound(skills, text) ==
    LET text_lower == Lower(text)
        Hit(skill) == Search(SkillPattern(skill), text_lower).found
        hits == SelectSeq(skills, Hit)
    IN  Dedupe([i \in DOMAIN hits |-> Title(hits[i])], {})

\* extract_skills
ExtractSkills(skills, text) ==
    IF skills = <<>> THEN NoSkillsDetected
    ELSE LET uniq == SkillsFound(skills, text)
         IN  IF uniq # <<>> THEN Join(uniq, <<",", " ">>) ELSE NoSkillsDetected

\* ------------------------------------------------------------------------
\* ResumeParser.extract_education and extract_experience.  A line is known by
\* the keywords its lower-cased text contains and by whether it is blank.
\* ------------------------------------------------------------------------
education_limit == 12
experience_limit == 20

education_keywords ==
    {"education", "academic", "qualification", "degree", "university", "college",
     "bachelor", "master", "phd", "b.tech", "m.tech", "mba", "bca", "mca"}
education_stop_words == {"experience", "work history", "projects", "skills", "certifications"}

experience_keywords ==
    {"experience", "work history", "employment", "professional experience", "work experience"}
experience_stop_words == {"education", "skills", "projects", "certifications"}

HeadingKeywords(w) == IF w = "education" THEN education_keywords ELSE experience_keywords
StopKeywords(w) == IF w = "education" THEN education_stop_words ELSE experience_stop_words
Limit(w) == IF w = "education" THEN education_limit ELSE experience_limit

\* any(k in low for k in keywords)
ContainsAny(line, keywords) == \E k \in keywords : k \in line.kws

Line(kws, blank) == [kws |-> kws, blank |-> blank]

\* "Education", "Work Experience", "Skills", "XYZ University", "Employment
\* history", "Education and Experience", a line without keywords, a blank line
Lines ==
    {Line({"education"}, FALSE), Line({"experience", "work experience"}, FALSE),
     Line({"skills"}, FALSE), Line({"university"}, FALSE), Line({"employment"}, FALSE),
     Line({"education", "experience"}, FALSE), Line({}, FALSE), Line({}, TRUE)}

\* line 159 (187): "\n".join(section) if section else "Not found"
\* as the lines joined, or the sentinel in place of no lines
SectionResult(sec) == [not_found |-> sec = <<>>, lines |-> sec]

\* nothing returned yet
NoSection == [not_found |-> FALSE, lines |-> <<>>]

\* ------------------------------------------------------------------------
\* ResumeParser.extract_text, extract_name, extract_email, parse
\* ------------------------------------------------------------------------
\* the keywords of the two sections, spelled out
KeywordSpelling ==
    {<<"education", <<"e","d","u","c","a","t","i","o","n">>>>,
     <<"academic", <<"a","c","a","d","e","m","i","c">>>>,
     <<"qualification", <<"q","u","a","l","i","f","i","c","a","t","i","o","n">>>>,
     <<"degree", <<"d","e","g","r","e","e">>>>,
     <<"university", <<"u","n","i","v","e","r","s","i","t","y">>>>,
     <<"college", <<"c","o","l","l","e","g","e">>>>,
     <<"bachelor", <<"b","a","c","h","e","l","o","r">>>>,
     <<"master", <<"m","a","s","t","e","r">>>>,
     <<"phd", <<"p","h","d">>>>,
     <<"b.tech", <<"b",".","t","e","c","h">>>>,
     <<"m.tech", <<"m",".","t","e","c","h">>>>,
     <<"mba", <<"m","b","a">>>>,
     <<"bca", <<"b","c","a">>>>,
     <<"mca", <<"m","c","a">>>>,
     <<"experience", <<"e","x","p","e","r","i","e","n","c","e">>>>,
     <<"work history", <<"w","o","r","k"," ","h","i","s","t","o","r","y">>>>,
     <<"projects", <<"p","r","o","j","e","c","t","s">>>>,
     <<"skills", <<"s","k","i","l","l","s">>>>,
     <<"certifications", <<"c","e","r","t","i","f","i","c","a","t","i","o","n","s">>>>,
     <<"employment", <<"e","m","p","l","o","y","m","e","n","t">>>>,
     <<"professional experience", <<"p","r","o","f","e","s","s","i","o","n","a","l"," ","e","x","p","e","r","i","e","n","c","e">>>>,
     <<"work experience", <<"w","o","r","k"," ","e","x","p","e","r","i","e","n","c","e">>>>}

\* k in s
OccursIn(k, s) == \E i \in 1..(Len(s) - Len(k) + 1) : SubSeq(s, i, i + Len(k) - 1) = k

\* str.splitlines(), for "\n" line ends: no empty last line after a final line end
RECURSIVE SplitLinesFrom(_, _, _)
SplitLinesFrom(s, i, cur) ==
    IF i > Len(s) THEN (IF cur = <<>> THEN <<>> ELSE <<cur>>)
    ELSE IF s[i] = "\n" THEN <<cur>> \o SplitLinesFrom(s, i + 1, <<>>)
    ELSE SplitLinesFrom(s, i + 1, Append(cur, s[i]))

SplitLines(s) == SplitLinesFrom(s, 1, <<>>)

\* a line of a text, by the keywords in line.lower() and whether line.strip() is empty
LineOf(l) ==
    Line({row[1] : row \in {r \in KeywordSpelling : OccursIn(r[2], Lower(l))}}, Strip(l) = <<>>)

\* lines 145-157 (173-185), the loop run to its end over the lines of a text
RECURSIVE CaptureLoop(_, _, _, _, _)
CaptureLoop(w, lines, i, cap, sec) ==
    IF i > Len(lines) THEN sec
    ELSE LET line == LineOf(lines[i])
             c == cap \/ ContainsAny(line, HeadingKeywords(w))
         IN  IF c /\ ContainsAny(line, StopKeywords(w)) THEN sec
             ELSE IF c /\ ~line.blank
             THEN IF Len(sec) + 1 > Limit(w) THEN Append(sec, Strip(lines[i]))
                  ELSE CaptureLoop(w, lines, i + 1, c, Append(sec, Strip(lines[i])))
             ELSE CaptureLoop(w, lines, i + 1, c, sec)

\* extract_education (w = "education") and extract_experience (w = "experience")
ExtractSection(w, text) ==
    LET sec == CaptureLoop(w, SplitLines(text), 1, FALSE, <<>>)
    IN  IF sec = <<>> THEN NotFound ELSE Join(sec, <<"\n">>)

\* \b[A-Za-z0-9._%+-]+@[A-Za-z0-9.-]+\.[A-Za-z]{2,}\b
email_pattern ==
    LET alnum == Range(UpperChars) \cup Range(LowerChars) \cup DigitChars
    IN  <<Boundary, Rep(alnum \cup {".", "_", "%", "+", "-"}, 1, 1000), Lit("@"),
          Rep(alnum \cup {".", "-"}, 1, 1000), Lit("."),
          Rep(Range(UpperChars) \cup Range(LowerChars), 2, 1000), Boundary>>

\* extract_email
ExtractEmail(text) ==
    LET m == Search(email_pattern, text)
    IN  IF m.found THEN Group0(text, m) ELSE NotFound

Unknown == <<"U","n","k","n","o","w","n">>

\* len(line.split())
WordCount(l) ==
    Cardinality({i \in DOMAIN l : l[i] \notin Whitespace /\ (i = 1 \/ l[i - 1] \in Whitespace)})

\* lines 86-91: the first of the first six lines that is short and of one to four words
RECURSIVE NameFallback(_, _)
NameFallback(lines, i) ==
    IF i > Len(lines) \/ i > 6 THEN Unknown
    ELSE LET l == Strip(lines[i])
         IN  IF 0 < Len(l) /\ Len(l) <= 60 /\ 1 <= WordCount(l) /\ WordCount(l) <= 4 THEN l
             ELSE NameFallback(lines, i + 1)

\* text[:1000]
name_window == 1000
Prefix(s, n) == SubSeq(s, 1, Min({n, Len(s)}))

\* extract_name; person is the first PERSON entity the spaCy pipeline reports
\* in text[:1000], None when it reports none
ExtractName(text, person) ==
    IF person # None /\ OccursIn(person, Prefix(text, name_window)) THEN Strip(person)
    ELSE NameFallback(SplitLines(text), 1)

\* a stored file: its suffix, its pages (a .txt or .docx holds them joined by
\* line ends), whether it can be opened and read, and the page at which
\* reading a PDF raises (0: none)
File(suffix, pages, opens, fail_page) ==
    [suffix |-> suffix, pages |-> pages, opens |-> opens, fail_page |-> fail_page]

\* open(..., encoding="utf-8", errors="ignore").read(): undecodable bytes are dropped
Decode(s) == SelectSeq(s, LAMBDA c : c # "<bad>")

\* text.replace("\x00", " ")
ReplaceNul(s) == [i \in DOMAIN s |-> IF s[i] = "<nul>" THEN " " ELSE s[i]]

\* extract_from_pdf: the pages read before an exception, joined
ExtractFromPdf(f) ==
    IF ~f.opens THEN Join(<<>>, <<"\n">>)
    ELSE IF f.fail_page = 0 THEN Join(f.pages, <<"\n">>)
    ELSE Join(SubSeq(f.pages, 1, f.fail_page - 1), <<"\n">>)

\* extract_text
ExtractText(f) ==
    LET file_extension == Lower(f.suffix)
    IN  IF file_extension = <<".","p","d","f">> THEN ReplaceNul(ExtractFromPdf(f))
        ELSE IF file_extension = <<".","d","o","c","x">>
        THEN IF f.opens THEN ReplaceNul(Join(f.pages, <<"\n">>)) ELSE <<>>
        ELSE IF file_extension = <<".","t","x","t">>
        THEN IF f.opens THEN ReplaceNul(Decode(Join(f.pages, <<"\n">>))) ELSE <<>>
        ELSE <<>>

FieldNames == {"name", "email", "phone", "skills", "education", "experience", "raw_text"}

\* what parse returns: None, or the dict
Absent == [kind |-> "None", fields |-> <<>>]
Parsed(fields) == [kind |-> "dict", fields |-> fields]

\* parse, with the catalog catalog and the entity person of the pipeline
Parse(catalog, f, person) ==
    LET raw == ExtractText(f)
    IN  IF raw = <<>> THEN Absent
        ELSE Parsed([name |-> ExtractName(raw, person),
                     email |-> ExtractEmail(raw),
                     phone |-> ExtractPhone(raw),
                     skills |-> ExtractSkills(catalog, raw),
                     education |-> ExtractSection("education", raw),
                     experience |-> ExtractSection("experience", raw),
                     raw_text |-> raw])

\* ------------------------------------------------------------------------
\* State
\* ------------------------------------------------------------------------
VARIABLES
    alpha,          \* ResumeRanker.alpha, in units of 1/AlphaDen
    vocabulary_,    \* the fitted feature names of the engine's one TfidfVectorizer
    pc,             \* per caller: where it is in rank_resumes
    args,           \* per caller: the arguments of its call
    tfidf_matrix,   \* per caller: the local tfidf_matrix
    job_terms,      \* per caller: the local job_terms
    result,         \* per caller: the returned list
    path,           \* per caller: the return statement taken
    probe,          \* a designated call (arguments), to compare repeated calls
    probeOut,       \* what the first completed call with the probe arguments returned
    text,           \* extract_phone / extract_skills: the text given
    phone,          \* extract_phone: the returned string, None before the call
    skills,         \* ResumeParser.skills, the catalog
    uniq,           \* extract_skills: the local uniq
    skills_out,     \* extract_skills: the returned string, None before the call
    which,          \* section capture: "education" or "experience"
    lineno,         \* section capture: how many lines the loop has read
    blanks,         \* section capture: how many of them were blank
    capture,        \* section capture: the local capture
    section,        \* section capture: the local section, as the numbers of the lines captured
    stopped,        \* section capture: "no", or why the loop ended: "stop", "limit", "eof"
    last_line,      \* section capture: the line of the last iteration
    section_out,    \* section capture: the returned value
    file_path,      \* parse: the file given
    raw_text,       \* parse: the local raw_text, None before extract_text returns
    parsed,         \* parse: the returned value
    Resume,         \* the rows of the resume table
    Job,            \* the rows of the job table
    MatchScore,     \* the rows of the match_score table
    ranked          \* rank_resumes_view: the job and the local ranked of the request
                    \* just handled, when that was a ranking

rankerVars == <<alpha, vocabulary_, pc, args, tfidf_matrix, job_terms, result, path, probe, probeOut>>
phoneVars == <<phone>>
skillVars == <<skills, uniq, skills_out>>
sectionVars == <<which, lineno, blanks, capture, section, stopped, last_line, section_out>>
parserVars == <<text, phoneVars, skillVars, sectionVars>>
parseVars == <<file_path, raw_text, parsed>>
appVars == <<Resume, Job, MatchScore, ranked>>

vars == <<rankerVars, parserVars, parseVars, appVars>>

\* ------------------------------------------------------------------------
\* Inputs of rank_resumes
\* ------------------------------------------------------------------------
NoSkills == [kind |-> "none", str |-> <<>>, list |-> <<>>]
SkillStr(s) == [kind |-> "str", str |-> s, list |-> <<>>]
SkillList(l) == [kind |-> "list", str |-> <<>>, list |-> l]

\* "py db" with skills [" Py", "db"]
ProfileA == [raw_text |-> <<"p","y"," ","d","b">>,
             skills_list |-> SkillList(<< <<" ","P","y">>, <<"d","b">> >>)]
\* no text, no skills
ProfileB == [raw_text |-> None, skills_list |-> NoSkills]
\* "ml py" with skills "ml, py," as one comma string
ProfileC == [raw_text |-> <<"m","l"," ","p","y">>,
             skills_list |-> SkillStr(<<"m","l",","," ","p","y",",">>)]
\* "the an" (stop words only) with skills ["DB "]
ProfileD == [raw_text |-> <<"t","h","e"," ","a","n">>,
             skills_list |-> SkillList(<< <<"D","B"," ">> >>)]

Cand(i, p) == [id |-> i, raw_text |-> p.raw_text, skills_list |-> p.skills_list]

\* equal candidates under different ids, ids that repeat, and two candidates
\* whose text has no vocabulary
Candidates ==
    {Cand(1, ProfileA), Cand(2, ProfileA), Cand(1, ProfileB), Cand(1, ProfileC), Cand(2, ProfileD)}

\* the batches: each stored resume at most once, as Resume.query.all() gives them
Batches ==
    UNION {{b \in [1..n -> Candidates] : \A i, j \in 1..n : i # j => b[i] # b[j]} :
              n \in 0..MaxBatch}

\* "Py db", "the" (stop words only), ""
JobDescriptions == { <<"P","y"," ","d","b">>, <<"t","h","e">>, <<>> }

Inputs == [resumes : Batches, job_description : JobDescriptions, top_job_terms : {1, top_job_terms}]

Alphas == {0, 7, 15}

NoArgs == [resumes |-> <<>>, job_description |-> <<>>, top_job_terms |-> 0]
NoOut == [set |-> FALSE, others |-> FALSE, out |-> <<>>]

Callers == {1, 2}

\* ------------------------------------------------------------------------
\* rank_resumes, in the steps at which the shared vectorizer is touched
\* ------------------------------------------------------------------------
\* line 82: not resumes or not job_description
EmptyInputResumesOnly(a) == a.resumes = <<>>

EmptyInput(a) == a.resumes = <<>> \/ a.job_description = <<>> \/ a.job_description = None

\* lines 81-101: the guards and the texts
Call(t, a) ==
    /\ pc[t] = "idle"
    /\ args' = [args EXCEPT ![t] = a]
    /\ IF EmptyInput(a)
       THEN /\ pc' = [pc EXCEPT ![t] = "done"]
            /\ result' = [result EXCEPT ![t] = <<>>]
            /\ path' = [path EXCEPT ![t] = "empty"]
       ELSE /\ pc' = [pc EXCEPT ![t] = "fit"]
            /\ UNCHANGED <<result, path>>
    /\ UNCHANGED <<alpha, vocabulary_, tfidf_matrix, job_terms, probe, probeOut>>
    /\ UNCHANGED <<parserVars, parseVars, appVars>>

\* line 105: self.vectorizer.fit_transform(texts); on an exception lines 136-142
FitStep(t) ==
    /\ pc[t] = "fit"
    /\ LET ft == Refit(vocabulary_, Texts(args[t]))
       IN  IF ft.ok
           THEN /\ vocabulary_' = ft.names
                /\ tfidf_matrix' = [tfidf_matrix EXCEPT ![t] = ft.matrix]
                /\ pc' = [pc EXCEPT ![t] = "names"]
                /\ UNCHANGED <<result, path>>
           ELSE /\ result' = [result EXCEPT ![t] = Fallback(args[t].resumes)]
                /\ path' = [path EXCEPT ![t] = "fallback"]
                /\ pc' = [pc EXCEPT ![t] = "done"]
                /\ UNCHANGED <<vocabulary_, tfidf_matrix>>
    /\ UNCHANGED <<alpha, args, job_terms, probe, probeOut>>
    /\ UNCHANGED <<parserVars, parseVars, appVars>>

\* lines 106-134: self.vectorizer.get_feature_names_out(), then the scoring
ScoreStep(t) ==
    /\ pc[t] = "names"
    /\ LET sc == Score(alpha, args[t], tfidf_matrix[t], vocabulary_)
       IN  /\ result' = [result EXCEPT ![t] = sc.out]
           /\ path' = [path EXCEPT ![t] = sc.path]
           /\ job_terms' = [job_terms EXCEPT ![t] = sc.terms]
    /\ pc' = [pc EXCEPT ![t] = "done"]
    /\ tfidf_matrix' = [tfidf_matrix EXCEPT ![t] = <<>>]
    /\ UNCHANGED <<alpha, vocabulary_, args, probe, probeOut>>
    /\ UNCHANGED <<parserVars, parseVars, appVars>>

\* the caller takes the returned list
Return(t) ==
    /\ pc[t] = "done"
    /\ pc' = [pc EXCEPT ![t] = "idle"]
    /\ probeOut' = IF args[t] = probe /\ ~probeOut.set
                   THEN [set |-> TRUE, others |-> FALSE, out |-> result[t]]
                   ELSE IF args[t] # probe /\ probeOut.set /\ path[t] # "empty"
                   THEN [probeOut EXCEPT !.others = TRUE]
                   ELSE probeOut
    /\ args' = [args EXCEPT ![t] = NoArgs]
    /\ result' = [result EXCEPT ![t] = <<>>]
    /\ path' = [path EXCEPT ![t] = "none"]
    /\ job_terms' = [job_terms EXCEPT ![t] = <<>>]
    /\ UNCHANGED <<alpha, vocabulary_, tfidf_matrix, probe>>
    /\ UNCHANGED <<parserVars, parseVars, appVars>>

\* ResumeRanker.__init__, and the probe
InitRanker(alphas, probes) ==
    /\ alpha \in alphas
    /\ vocabulary_ = <<>>
    /\ pc = [t \in Callers |-> "idle"]
    /\ args = [t \in Callers |-> NoArgs]
    /\ tfidf_matrix = [t \in Callers |-> <<>>]
    /\ job_terms = [t \in Callers |-> <<>>]
    /\ result = [t \in Callers |-> <<>>]
    /\ path = [t \in Callers |-> "none"]
    /\ probe \in probes
    /\ probeOut = NoOut

ProbeInputs ==
    {a \in Inputs : /\ a.resumes = <<Cand(1, ProfileA), Cand(1, ProfileC)>>
                    /\ a.job_description # <<>>
                    /\ a.top_job_terms = top_job_terms}

\* the extractors before they are called
IdlePhone == phone = None

IdleSkills ==
    /\ skills = <<>>
    /\ uniq = <<>>
    /\ skills_out = None

IdleSection ==
    /\ which = "education"
    /\ lineno = 0
    /\ blanks = 0
    /\ capture = FALSE
    /\ section = <<>>
    /\ stopped = "no"
    /\ last_line = Line({}, TRUE)
    /\ section_out = NoSection

\* a parser that has been given nothing to do
IdleParser == text = <<>> /\ IdlePhone /\ IdleSkills /\ IdleSection

NoFile == File(<<>>, <<>>, TRUE, 0)
NotParsed == [kind |-> "none", fields |-> <<>>]

\* parse before it is called
IdleParse ==
    /\ file_path = NoFile
    /\ raw_text = None
    /\ parsed = NotParsed

NoRanking == [job_id |-> 0, items |-> <<>>]

\* the application with empty tables
IdleApp ==
    /\ Resume = {}
    /\ Job = {}
    /\ MatchScore = {}
    /\ ranked = NoRanking

\* the engine of app.py line 34, not called
IdleRanker == InitRanker({7}, {CHOOSE a \in ProbeInputs : TRUE})

\* One caller at a time: calls on the engine follow one another
Init == InitRanker(Alphas, ProbeInputs) /\ IdleParser /\ IdleParse /\ IdleApp

Next ==
    \/ \E a \in Inputs : Call(1, a)
    \/ FitStep(1)
    \/ ScoreStep(1)
    \/ Return(1)

Spec == Init /\ [][Next]_vars

\* Two callers on the one engine of the application (app.py line 34), their
\* steps interleaved
ConcInputs ==
    {a \in Inputs : /\ Len(a.resumes) <= 1
                    /\ \A i \in DOMAIN a.resumes : a.resumes[i].id = 1
                    /\ a.top_job_terms = top_job_terms}

InitConc == IdleRanker /\ IdleParser /\ IdleParse /\ IdleApp

NextConc ==
    \E t \in Callers :
        \/ \E a \in ConcInputs : Call(t, a)
        \/ FitStep(t)
        \/ ScoreStep(t)
        \/ Return(t)

SpecConc == InitConc /\ [][NextConc]_vars

\* ------------------------------------------------------------------------
\* extract_phone on one text
\* ------------------------------------------------------------------------
MaxSegments == 2

\* "+91 98765 43210", "9876543210", "0", " 1234", "x", " ", "+1 (555) 123 4567"
Segments ==
    { <<"+","9","1"," ","9","8","7","6","5"," ","4","3","2","1","0">>,
      <<"9","8","7","6","5","4","3","2","1","0">>,
      <<"0">>,
      <<" ","1","2","3","4">>,
      <<"x">>,
      <<" ">>,
      <<"+","1"," ","(","5","5","5",")"," ","1","2","3"," ","4","5","6","7">> }

RECURSIVE Concat(_)
Concat(parts) == IF parts = <<>> THEN <<>> ELSE Head(parts) \o Concat(Tail(parts))

PhoneTexts == {Concat(parts) : parts \in UNION {[1..n -> Segments] : n \in 0..MaxSegments}}

InitPhone ==
    /\ IdleRanker /\ IdleParse /\ IdleApp
    /\ IdlePhone /\ IdleSkills /\ IdleSection
    /\ text \in PhoneTexts

ExtractPhoneCall ==
    /\ phone = None
    /\ phone' = ExtractPhone(text)
    /\ UNCHANGED <<rankerVars, parseVars, appVars, text, skillVars, sectionVars>>

NextPhone == ExtractPhoneCall

SpecPhone == InitPhone /\ [][NextPhone]_vars

\* ------------------------------------------------------------------------
\* ResumeParser.__init__ (load_skills) and extract_skills on one text
\* ------------------------------------------------------------------------
MaxCatalog == 2

\* "Python ", "python", "sql", "c++", "c", "  "
FileLines ==
    { <<"P","y","t","h","o","n"," ","\n">>, <<"p","y","t","h","o","n","\n">>,
      <<"s","q","l","\n">>, <<"c","+","+","\n">>, <<"c">>, <<" "," ","\n">> }

SkillFiles ==
    {[exists |-> FALSE, lines |-> <<>>]}
    \cup {[exists |-> TRUE, lines |-> l] : l \in UNION {[1..n -> FileLines] : n \in 0..MaxCatalog}}

\* "Python and SQL", "c++ dev", "c++x", "pythonic sqlite", ""
SkillTexts ==
    { <<"P","y","t","h","o","n"," ","a","n","d"," ","S","Q","L">>,
      <<"c","+","+"," ","d","e","v">>,
      <<"c","+","+","x">>,
      <<"p","y","t","h","o","n","i","c"," ","s","q","l","i","t","e">>,
      <<>> }

InitSkills ==
    /\ IdleRanker /\ IdleParse /\ IdleApp
    /\ IdlePhone /\ IdleSection
    /\ \E file \in SkillFiles : skills = LoadSkills(file)
    /\ text \in SkillTexts
    /\ uniq = <<>>
    /\ skills_out = None

ExtractSkillsCall ==
    /\ skills_out = None
    /\ skills_out' = ExtractSkills(skills, text)
    /\ uniq' = IF skills = <<>> THEN <<>> ELSE SkillsFound(skills, text)
    /\ UNCHANGED <<rankerVars, parseVars, appVars, text, skills, phoneVars, sectionVars>>

NextSkills == ExtractSkillsCall

SpecSkills == InitSkills /\ [][NextSkills]_vars

\* ------------------------------------------------------------------------
\* extract_education / extract_experience, one loop iteration per step; the
\* text is read line by line, so its lines are chosen as the loop reaches them
\* ------------------------------------------------------------------------
MaxLines == 22
MaxBlank == 1

InitSection ==
    /\ IdleRanker /\ IdleParse /\ IdleApp
    /\ text = <<>> /\ IdlePhone /\ IdleSkills
    /\ which \in {"education", "experience"}
    /\ lineno = 0
    /\ blanks = 0
    /\ capture = FALSE
    /\ section = <<>>
    /\ stopped = "no"
    /\ last_line = Line({}, TRUE)
    /\ section_out = NoSection

\* an iteration that looks for a heading on every line, forgetting the one it found
NextLineSeekAgain(line) ==
    /\ stopped = "no"
    /\ lineno < MaxLines
    /\ line.blank => blanks < MaxBlank
    /\ lineno' = lineno + 1
    /\ blanks' = IF line.blank THEN blanks + 1 ELSE blanks
    /\ last_line' = line
    /\ LET cap == ContainsAny(line, HeadingKeywords(which))
       IN  /\ capture' = cap
           /\ IF cap /\ ContainsAny(line, StopKeywords(which))
              THEN /\ stopped' = "stop"
                   /\ section' = section
              ELSE IF cap /\ ~line.blank
              THEN /\ section' = Append(section, lineno + 1)
                   /\ stopped' = IF Len(section) + 1 > Limit(which) THEN "limit" ELSE "no"
              ELSE /\ section' = section
                   /\ stopped' = "no"
    /\ section_out' = IF stopped' = "no" THEN NoSection ELSE SectionResult(section')
    /\ UNCHANGED <<rankerVars, parseVars, appVars, text, phoneVars, skillVars, which>>

\* lines 145-157 (173-185): one iteration of the loop, on the next line
NextLine(line) ==
    /\ stopped = "no"
    /\ lineno < MaxLines
    /\ line.blank => blanks < MaxBlank
    /\ lineno' = lineno + 1
    /\ blanks' = IF line.blank THEN blanks + 1 ELSE blanks
    /\ last_line' = line
    /\ LET cap == capture \/ ContainsAny(line, HeadingKeywords(which))
       IN  /\ capture' = cap
           /\ IF cap /\ ContainsAny(line, StopKeywords(which))
              THEN /\ stopped' = "stop"
                   /\ section' = section
              ELSE IF cap /\ ~line.blank
              THEN /\ section' = Append(section, lineno + 1)
                   /\ stopped' = IF Len(section) + 1 > Limit(which) THEN "limit" ELSE "no"
              ELSE /\ section' = section
                   /\ stopped' = "no"
    /\ section_out' = IF stopped' = "no" THEN NoSection ELSE SectionResult(section')
    /\ UNCHANGED <<rankerVars, parseVars, appVars, text, phoneVars, skillVars, which>>

\* the text has no more lines: the loop ends
EndOfText ==
    /\ stopped = "no"
    /\ stopped' = "eof"
    /\ section_out' = SectionResult(section)
    /\ UNCHANGED <<rankerVars, parseVars, appVars, text, phoneVars, skillVars, which, lineno, blanks, capture, section, last_line>>

NextSection ==
    \/ \E line \in Lines : NextLine(line)
    \/ EndOfText

SpecSection == InitSection /\ [][NextSection]_vars

\* ------------------------------------------------------------------------
\* parse on one file
\* ------------------------------------------------------------------------
MaxPages == 2

\* an empty page, "Ann Lee\na@b.co", "Education\nMIT" with a NUL after it
PageTexts ==
    {<<>>,
     <<"A","n","n"," ","L","e","e","\n","a","@","b",".","c","o">>,
     <<"E","d","u","c","a","t","i","o","n","\n","M","I","T","<nul>">>}

\* bytes that are not UTF-8, as only a .txt is read
TxtPageTexts == PageTexts \cup {<<"<bad>">>}

Suffixes == {<<".","p","d","f">>, <<".","P","D","F">>, <<".","d","o","c","x">>, <<".","t","x","t">>, <<".","d","o","c">>}

IsPdf(suffix) == Lower(suffix) = <<".","p","d","f">>
IsTxt(suffix) == Lower(suffix) = <<".","t","x","t">>

\* the files: only reading a PDF can fail at a page
Files ==
    {File(sfx, pages, opens, fail) :
        sfx \in Suffixes, pages \in UNION {[1..n -> TxtPageTexts] : n \in 0..MaxPages},
        opens \in BOOLEAN, fail \in 0..MaxPages}

Documents ==
    {f \in Files :
        /\ f.fail_page <= Len(f.pages)
        /\ f.fail_page # 0 => IsPdf(f.suffix) /\ f.opens
        /\ ~IsTxt(f.suffix) => \A i \in DOMAIN f.pages : f.pages[i] \in PageTexts}

Catalogs == {<<>>, <<<<"m","i","t">>>>}
Persons == {None, <<"A","n","n"," ","L","e","e">>}

InitParse ==
    /\ IdleRanker /\ IdleApp
    /\ text = <<>> /\ IdlePhone /\ IdleSection
    /\ skills \in Catalogs
    /\ uniq = <<>>
    /\ skills_out = None
    /\ file_path \in Documents
    /\ raw_text = None
    /\ parsed = NotParsed

\* parse(file_path)
ParseCall ==
    /\ parsed = NotParsed
    /\ raw_text' = ExtractText(file_path)
    /\ \E person \in Persons : parsed' = Parse(skills, file_path, person)
    /\ UNCHANGED <<rankerVars, parserVars, appVars, file_path>>

NextParse == ParseCall

SpecParse == InitParse /\ [][NextParse]_vars

\* ------------------------------------------------------------------------
\* The application: the tables and the request handlers, one request at a time
\* ------------------------------------------------------------------------
MaxResumes == 2
MaxJobs == 2
MaxUpload == 2
MaxScoreId == 5

\* allowed_file
AllowedFile(f) ==
    Lower(f.suffix) \in {<<".","p","d","f">>, <<".","d","o","c","x">>, <<".","t","x","t">>}

\* the primary key of a new row: one more than the largest in the table
NextId(rows) == IF rows = {} THEN 1 ELSE Max({r.id : r \in rows}) + 1

\* lines 75-102: the row stored for a parsed file
ResumeRow(id, fields) ==
    [id |-> id, name |-> fields.name, email |-> fields.email, phone |-> fields.phone,
     skills |-> Strip(fields.skills), education |-> fields.education,
     experience |-> fields.experience, raw_text |-> fields.raw_text]

\* lines 63-103: the loop over the uploaded files, parsed_data[k] being what
\* parse returned for the k-th file
RECURSIVE AddUploaded(_, _, _)
AddUploaded(rows, parsed_data, k) ==
    IF k > Len(parsed_data) THEN rows
    ELSE AddUploaded(IF parsed_data[k].kind = "dict"
                     THEN rows \cup {ResumeRow(NextId(rows), parsed_data[k].fields)}
                     ELSE rows,
                     parsed_data, k + 1)

\* the rows of a table in the order of their keys
RECURSIVE ById(_)
ById(rows) ==
    IF rows = {} THEN <<>>
    ELSE LET first == CHOOSE r \in rows : \A q \in rows : r.id <= q.id
         IN  <<first>> \o ById(rows \ {first})

\* a splitting on white space in place of commas
SplitSkillsOnSpaces(skl) ==
    SelectSeq(SplitLines([i \in DOMAIN skl |-> IF skl[i] = " " THEN "\n" ELSE skl[i]]),
              LAMBDA x : x # <<>>)

\* lines 134-136: [s.strip() for s in skl.split(',') if s.strip()]
SplitSkills(skl) ==
    LET pieces == SplitComma(skl)
        stripped == [i \in DOMAIN pieces |-> Strip(pieces[i])]
    IN  SelectSeq(stripped, LAMBDA x : x # <<>>)

\* lines 131-146: resume_data
ResumeData(rows) ==
    LET all == ById(rows)
    IN  [i \in DOMAIN all |->
            [id |-> all[i].id, raw_text |-> all[i].raw_text,
             skills_list |-> SkillList(SplitSkills(all[i].skills))]]

\* rank_resumes after fit_transform gave ft, on an engine no other call is using
RankFitted(al, a, ft) ==
    IF ft.ok THEN Score(al, a, ft.matrix, ft.names).out ELSE Fallback(a.resumes)

\* lines 155-165: one MatchScore row for each item of ranked
NewScores(items, job_id, base) ==
    {[id |-> base + k - 1, resume_id |-> items[k].id, job_id |-> job_id,
      score |-> items[k].final_score] : k \in DOMAIN items}

\* a .txt "py db", a .TXT "db", a PDF that cannot be opened, a .doc
AppFiles ==
    {File(<<".","t","x","t">>, <<<<"p","y"," ","d","b">>>>, TRUE, 0),
     File(<<".","T","X","T">>, <<<<"d","b">>>>, TRUE, 0),
     File(<<".","p","d","f">>, <<<<"p","y"," ","d","b">>>>, FALSE, 0),
     File(<<".","d","o","c">>, <<<<"p","y"," ","d","b">>>>, TRUE, 0)}

Uploads == UNION {[1..n -> AppFiles] : n \in 1..MaxUpload}

\* the catalog of the running parser
AppCatalogs == {<<>>, <<<<"p","y">>>>}

\* lines 64-68: what parse returns for an uploaded file, None for a file name
\* that is not allowed; the texts name no person
ParsedUpload ==
    [c \in AppCatalogs |->
        [f \in AppFiles |-> IF AllowedFile(f) THEN Parse(c, f, None) ELSE Absent]]

Titles == {<<>>, <<"T">>}
Descriptions == {<<>>, <<"p","y"," ","d","b">>, <<"N","o"," ","s","k","i","l","l","s"," ","d","e","t","e","c","t","e","d">>}

\* line 34: ResumeRanker(alpha=0.7), in units of 1/AlphaDen
app_alpha == 7

\* app.py lines 31-41: the parser, the ranker with alpha 0.7, empty tables
InitApp ==
    /\ InitRanker({app_alpha}, {CHOOSE a \in ProbeInputs : TRUE})
    /\ text = <<>> /\ IdlePhone /\ IdleSection /\ IdleParse
    /\ skills \in AppCatalogs
    /\ uniq = <<>>
    /\ skills_out = None
    /\ IdleApp

\* a table after deleting the rows that satisfy a filter
Without(rows, Gone(_)) == {r \in rows : ~Gone(r)}

\* POST /upload
UploadResumes(files) ==
    /\ Resume' = AddUploaded(Resume, [k \in DOMAIN files |-> ParsedUpload[skills][files[k]]], 1)
    /\ \A r \in Resume' : r.id <= MaxResumes
    /\ ranked' = NoRanking
    /\ UNCHANGED <<rankerVars, parserVars, parseVars, Job, MatchScore>>

\* POST /add-job
AddJob(title, description) ==
    /\ Job' = IF title = <<>> \/ description = <<>> THEN Job
              ELSE Job \cup {[id |-> NextId(Job), title |-> title, description |-> description]}
    /\ \A j \in Job' : j.id <= MaxJobs
    /\ ranked' = NoRanking
    /\ UNCHANGED <<rankerVars, parserVars, parseVars, Resume, MatchScore>>

\* a ranking that leaves the job's previous scores in the table
KeepPrevious(job_id) == MatchScore

\* line 152: MatchScore.query.filter_by(job_id=job_id).delete()
ClearPrevious(job_id) == Without(MatchScore, LAMBDA m : m.job_id = job_id)

\* lines 149-167, with the arguments a of the call, what fit_transform gives
\* for them and the list rank_resumes returns
StoreRanking(job_id, a, ft, items) ==
    LET kept == ClearPrevious(job_id)
    IN  /\ ranked' = [job_id |-> job_id, items |-> items]
        /\ MatchScore' = kept \cup NewScores(items, job_id, NextId(kept))
        /\ \A m \in MatchScore' : m.id <= MaxScoreId
        /\ vocabulary_' = IF ~EmptyInput(a) /\ ft.ok THEN ft.names ELSE vocabulary_

\* GET /rank/<job_id>
RankResumesView(job_id) ==
    /\ IF (\A j \in Job : j.id # job_id) \/ Resume = {}
       THEN ranked' = NoRanking /\ UNCHANGED <<vocabulary_, MatchScore>>
       ELSE \E job \in {j \in Job : j.id = job_id} :
            \E a \in {[resumes |-> ResumeData(Resume), job_description |-> job.description,
                       top_job_terms |-> top_job_terms]} :
            \E ft \in {Refit(vocabulary_, Texts(a))} :
            \E items \in {IF EmptyInput(a) THEN <<>> ELSE RankFitted(alpha, a, ft)} :
                StoreRanking(job_id, a, ft, items)
    /\ UNCHANGED <<alpha, pc, args, tfidf_matrix, job_terms, result, path, probe, probeOut>>
    /\ UNCHANGED <<parserVars, parseVars, Resume, Job>>

\* POST /delete-resume/<resume_id>
DeleteResume(resume_id) ==
    /\ ranked' = NoRanking
    /\ IF \A r \in Resume : r.id # resume_id
       THEN UNCHANGED <<Resume, MatchScore>>
       ELSE /\ MatchScore' = Without(MatchScore, LAMBDA m : m.resume_id = resume_id)
            /\ Resume' = Without(Resume, LAMBDA r : r.id = resume_id)
    /\ UNCHANGED <<rankerVars, parserVars, parseVars, Job>>

\* POST /delete-job/<job_id>
DeleteJob(job_id) ==
    /\ ranked' = NoRanking
    /\ IF \A j \in Job : j.id # job_id
       THEN UNCHANGED <<Job, MatchScore>>
       ELSE /\ MatchScore' = Without(MatchScore, LAMBDA m : m.job_id = job_id)
            /\ Job' = Without(Job, LAMBDA j : j.id = job_id)
    /\ UNCHANGED <<rankerVars, parserVars, parseVars, Resume>>

\* POST /clear-all
ClearAll ==
    /\ ranked' = NoRanking
    /\ MatchScore' = {}
    /\ Resume' = {}
    /\ Job' = {}
    /\ UNCHANGED <<rankerVars, parserVars, parseVars>>

NextApp ==
    \/ \E files \in Uploads : UploadResumes(files)
    \/ \E title \in Titles, description \in Descriptions : AddJob(title, description)
    \/ \E job_id \in 1..(MaxJobs + 1) : RankResumesView(job_id)
    \/ \E resume_id \in 1..(MaxResumes + 1) : DeleteResume(resume_id)
    \/ \E job_id \in 1..(MaxJobs + 1) : DeleteJob(job_id)
    \/ ClearAll

SpecApp == InitApp /\ [][NextApp]_vars

\* ------------------------------------------------------------------------
\* Claims
\* ------------------------------------------------------------------------
Returned(t) == pc[t] = "done"
Ranked(t) == Returned(t) /\ path[t] # "empty"

\* C1: for a non-empty job description and batch, the returned sequence holds
\* exactly the input candidates' ids (one result per input candidate, with its
\* id), is ordered by non-increasing final_score, and keeps candidates of equal
\* final_score in input order; on the normal path and on the fallback path.
C1_PermutationSortedStable ==
    \A t \in Callers :
        Ranked(t) =>
            LET out == result[t]
                in == args[t].resumes
            IN  /\ Len(out) = Len(in)
                /\ {out[k].pos : k \in DOMAIN out} = DOMAIN in
                /\ \A k \in DOMAIN out : out[k].id = in[out[k].pos].id
                /\ \A i \in {c.id : c \in Candidates} :
                      Cardinality({k \in DOMAIN out : out[k].id = i})
                        = Cardinality({k \in DOMAIN in : in[k].id = i})
                /\ \A k, l \in DOMAIN out :
                      k < l => /\ out[k].final_score >= out[l].final_score
                               /\ (out[k].final_score = out[l].final_score
                                     => out[k].pos < out[l].pos)

\* a ranked batch whose two candidates tie at a positive score under different ids
C1_Witness ==
    /\ Ranked(1) /\ path[1] = "ranked"
    /\ Len(result[1]) = 2
    /\ result[1][1].final_score = result[1][2].final_score
    /\ result[1][1].final_score > 0
    /\ result[1][1].id # result[1][2].id

InUnit(x) == 0 <= x /\ x <= AlphaDen * Scale

WeightedSum(e) ==
    e.final_score = alpha * e.tfidf + (AlphaDen - alpha) * e.skill_match

\* C2 as stated: for whatever alpha the engine was constructed with, every
\* result has final_score in [0,1] and final_score = alpha * lexical_score +
\* (1 - alpha) * skill_match of that same result.
C2_AnyAlpha ==
    \A t \in Callers :
        Ranked(t) => \A k \in DOMAIN result[t] : InUnit(result[t][k].final_score) /\ WeightedSum(result[t][k])

\* C2, amended: the same for an engine constructed with alpha in [0,1].
C2_AlphaInUnit ==
    (0 <= alpha /\ alpha <= AlphaDen) => C2_AnyAlpha

\* a result strictly inside (0,1) built from two positive components, alpha = 0.7
C2_Witness ==
    /\ Ranked(1) /\ alpha = 7
    /\ \E k \in DOMAIN result[1] :
          /\ result[1][k].tfidf > 0 /\ result[1][k].tfidf < Scale
          /\ result[1][k].skill_match > 0 /\ result[1][k].skill_match < Scale

\* no text of the call yields a term: the vocabulary is empty and fit_transform raises
NoVocabulary(a) ==
    \A d \in DOMAIN Texts(a) :
        \A tok \in Range(Tokenize(Lower(Texts(a)[d]))) : tok \in StopWords

\* C3: when building the vector space fails, rank_resumes returns (it does not
\* raise) one result per input candidate, in input order, with the candidate's
\* id, final_score 0 and both components 0.
C3_FallbackZeros ==
    \A t \in Callers :
        (Ranked(t) /\ NoVocabulary(args[t])) =>
            /\ path[t] = "fallback"
            /\ Len(result[t]) = Len(args[t].resumes)
            /\ \A k \in DOMAIN result[t] :
                  /\ result[t][k].id = args[t].resumes[k].id
                  /\ result[t][k].final_score = 0
                  /\ result[t][k].tfidf = 0
                  /\ result[t][k].skill_match = 0

\* a failed batch of two candidates with different ids, one of them with skills
C3_Witness ==
    /\ Ranked(1) /\ NoVocabulary(args[1])
    /\ Len(result[1]) = 2
    /\ result[1][1].id = 2 /\ result[1][2].id = 1

\* C4: with an empty candidate list or an empty job description rank_resumes
\* returns the empty sequence, whatever the other arguments are.
C4_EmptyInEmptyOut ==
    \A t \in Callers :
        (Returned(t) /\ (args[t].resumes = <<>> \/ args[t].job_description = <<>>))
            => result[t] = <<>> /\ path[t] = "empty"

\* a call with candidates and an empty job description has returned
C4_Witness ==
    /\ Returned(1)
    /\ args[1].resumes # <<>>
    /\ args[1].job_description = <<>>
    /\ vocabulary_ # <<>>

\* the distinct lowercased-and-trimmed skills a candidate was given
CandidateSkillSet(r) ==
    LET given == IF r.skills_list.kind = "list" THEN Range(r.skills_list.list)
                 ELSE IF r.skills_list.kind = "str" THEN Range(SplitComma(r.skills_list.str))
                 ELSE {}
    IN  {Strip(Lower(x)) : x \in given} \ {<<>>}

\* C5: a candidate's skill_match is the number of its distinct normalized skills
\* that are normalized prominent job terms, divided by the number of distinct
\* normalized prominent job terms; 0 when either set is empty; within [0,1].
C5_SkillMatchRatio ==
    \A t \in Callers :
        (Returned(t) /\ path[t] = "ranked") =>
            \A k \in DOMAIN result[t] :
                LET jobSet == {Strip(Lower(x)) : x \in Range(job_terms[t])}
                    candSet == CandidateSkillSet(args[t].resumes[result[t][k].pos])
                    m == result[t][k].skill_match
                IN  /\ 0 <= m /\ m <= Scale
                    /\ (jobSet = {} \/ candSet = {}) => m = 0
                    /\ jobSet # {} =>
                          m = (Scale * Cardinality(candSet \cap jobSet)) \div Cardinality(jobSet)

\* a candidate matching some, not all, of several prominent terms
C5_Witness ==
    /\ Returned(1) /\ path[1] = "ranked"
    /\ Len(job_terms[1]) > 1
    /\ \E k \in DOMAIN result[1] :
          result[1][k].skill_match > 0 /\ result[1][k].skill_match < Scale

\* C6: a call with the same job description and the same batch as an earlier
\* call on the engine returns the same output, whatever calls came in between.
C6_RepeatedCallSameOutput ==
    (Returned(1) /\ args[1] = probe /\ probeOut.set) => result[1] = probeOut.out

\* the probe call has returned a ranking a second time, after calls with other arguments
C6_Witness ==
    /\ Returned(1) /\ args[1] = probe
    /\ probeOut.set /\ probeOut.others
    /\ path[1] = "ranked"

\* what a call returns when it runs alone on a fresh engine
Alone(a) ==
    IF EmptyInput(a) THEN <<>>
    ELSE LET ft == FitTransform(Texts(a))
         IN  IF ft.ok THEN Score(alpha, a, ft.matrix, ft.names).out
             ELSE Fallback(a.resumes)

\* C7: when two calls on the same engine interleave, each returns what it
\* would return if it ran alone on its own arguments.
C7_InterleavedAsAlone ==
    \A t \in Callers : Returned(t) => result[t] = Alone(args[t])

\* the three patterns in every order
PatternOrders ==
    {<<patterns[o[1]], patterns[o[2]], patterns[o[3]]>> :
        o \in {f \in [1..3 -> 1..3] : \A i, j \in 1..3 : i # j => f[i] # f[j]}}

\* the leftmost match of each pattern in the text
Leftmost == [p \in 1..3 |-> Search(patterns[p], text)]
Matching == {p \in 1..3 : Leftmost[p].found}
SmallestStart == Min({Leftmost[p].start : p \in Matching})
AtSmallestStart == {p \in Matching : Leftmost[p].start = SmallestStart}

\* C8 as stated: extract_phone returns the match of smallest start offset among
\* the matches of the three patterns, whatever the order in which the patterns
\* are tried, and "Not found" exactly when no pattern matches.
C8_SmallestStartAnyOrder ==
    phone # None =>
        /\ phone = NotFound <=> Matching = {}
        /\ \A p \in AtSmallestStart : phone = Group0(text, Leftmost[p])
        /\ \A pats \in PatternOrders : ExtractPhoneWith(pats, text) = phone

\* C8, amended: "Not found" exactly when no pattern matches; otherwise the
\* leftmost match of smallest start offset, and among patterns whose leftmost
\* matches start at that offset the one listed first; the order of the patterns
\* does not matter when the matches at that offset are the same substring.
C8_SmallestStartFirstListed ==
    phone # None =>
        /\ phone = NotFound <=> Matching = {}
        /\ Matching # {} =>
              /\ phone = Group0(text, Leftmost[Min(AtSmallestStart)])
              /\ (\A p \in AtSmallestStart : Group0(text, Leftmost[p]) = phone)
                    => \A pats \in PatternOrders : ExtractPhoneWith(pats, text) = phone

\* the pattern tried first matches, and a pattern tried later wins with a smaller offset
C8_Witness ==
    /\ phone # None
    /\ Leftmost[1].found
    /\ 1 \notin AtSmallestStart
    /\ phone = Group0(text, Leftmost[Min(AtSmallestStart)])

WordAt(t, i) == i >= 1 /\ i <= Len(t) /\ IsWordChar(t[i])
OccursAt(e, t, i) == i >= 1 /\ i + Len(e) - 1 <= Len(t) /\ SubSeq(t, i, i + Len(e) - 1) = e

\* e occurs in t with no word character next to it on either side
WholeWord(e, t) ==
    \E i \in 1..Len(t) : OccursAt(e, t, i) /\ ~WordAt(t, i - 1) /\ ~WordAt(t, i + Len(e))

\* e occurs in t with, next to each end of e, a character of the other kind
\* (word / non-word) than that end, or none where that end is a word character
Delimited(e, t) ==
    \E i \in 1..Len(t) :
        /\ OccursAt(e, t, i)
        /\ WordAt(t, i - 1) # IsWordChar(e[1])
        /\ WordAt(t, i + Len(e)) # IsWordChar(e[Len(e)])

WordEdged(e) == IsWordChar(e[1]) /\ IsWordChar(e[Len(e)])

FirstIndex(s) == Min({i \in DOMAIN skills : Title(skills[i]) = s})

\* title-cased, in catalog order of first appearance, none twice, joined by ", "
ListedOnceInCatalogOrder ==
    /\ \A k \in DOMAIN uniq : \E i \in DOMAIN skills : uniq[k] = Title(skills[i])
    /\ \A k, l \in DOMAIN uniq : k < l => uniq[k] # uniq[l] /\ FirstIndex(uniq[k]) < FirstIndex(uniq[l])
    /\ skills_out = IF uniq = <<>> THEN NoSkillsDetected ELSE Join(uniq, <<",", " ">>)

\* C9 as stated: the skills returned are exactly the catalog entries that occur
\* in the text as a whole word, case-insensitively, each title-cased, in catalog
\* order of first appearance, none twice.
C9_ExactlyWholeWords ==
    skills_out # None =>
        /\ \A i \in DOMAIN skills :
              Title(skills[i]) \in Range(uniq) <=> WholeWord(skills[i], Lower(text))
        /\ ListedOnceInCatalogOrder

\* C9, amended: as stated for the entries that begin and end with a word
\* character; an entry with a non-word character at an end is returned exactly
\* when it occurs with a word character next to that end.
C9_ExactlyDelimited ==
    skills_out # None =>
        /\ \A i \in DOMAIN skills :
              Title(skills[i]) \in Range(uniq)
                <=> IF WordEdged(skills[i]) THEN WholeWord(skills[i], Lower(text))
                    ELSE Delimited(skills[i], Lower(text))
        /\ ListedOnceInCatalogOrder

\* a catalog with a repeated entry that occurs in the text: listed once
C9_Witness ==
    /\ skills_out # None
    /\ \E i, j \in DOMAIN skills : i < j /\ skills[i] = skills[j] /\ Title(skills[i]) \in Range(uniq)
    /\ skills_out # NoSkillsDetected

\* C10: extract_education returns at most 12 captured lines and
\* extract_experience at most 20.
C10_AtMostLimit ==
    stopped # "no" => Len(section) <= Limit(which)

\* the states of section capture
Seeking == ~capture
Capturing == capture

\* the loop has read one more line
ReadLine == lineno' = lineno + 1

\* at every moment of a capture: nothing is captured while seeking, the loop
\* runs until a stop keyword, the ceiling or the end of input, and what is
\* returned then is the captured lines, or the sentinel when there are none
SectionInvariant ==
    /\ Seeking => section = <<>>
    /\ stopped \in {"no", "stop", "limit", "eof"}
    /\ stopped = "stop" => Capturing /\ ContainsAny(last_line, StopKeywords(which))
    /\ stopped = "limit" <=> Len(section) > Limit(which)
    /\ stopped = "no" => section_out = NoSection
    /\ stopped # "no" => section_out = SectionResult(section)
    /\ (stopped # "no" /\ Seeking) => section_out.not_found
    /\ \A k \in DOMAIN section : section[k] <= lineno /\ (k > 1 => section[k - 1] < section[k])

\* at every step of a capture
SectionStep ==
    /\ Capturing => capture'
    /\ stopped # "no" => UNCHANGED <<lineno, capture, section, stopped, section_out>>
    /\ ReadLine =>
          /\ stopped = "no"
          /\ capture' <=> (capture \/ ContainsAny(last_line', HeadingKeywords(which)))
          /\ IF capture' /\ ContainsAny(last_line', StopKeywords(which))
             THEN stopped' = "stop" /\ section' = section
             ELSE IF capture' /\ ~last_line'.blank
             THEN section' = Append(section, lineno') /\ stopped' \in {"no", "limit"}
             ELSE section' = section /\ stopped' = "no"
    /\ ~ReadLine => (section' = section /\ capture' = capture /\ stopped' \in {stopped, "eof"})

\* C11: section capture starts seeking and captures nothing before the first
\* line with a heading keyword; from that line on it is capturing and never
\* seeks again; it ends at the first line read while capturing that has a stop
\* keyword, without capturing that line or any later one, at the line-count
\* ceiling, or at the end of input; only non-empty lines are captured; and with
\* no heading matched the result is "Not found".
C11_SeekThenCapture ==
    [](SectionInvariant) /\ [][SectionStep]_vars

\* a capture ended by a stop keyword after a blank line was passed over between captured lines
C11_Witness ==
    /\ stopped = "stop"
    /\ Len(section) >= 2
    /\ \E k \in DOMAIN section : k > 1 /\ section[k] > section[k - 1] + 1
    /\ blanks > 0
    /\ section[1] > 1
    /\ ~section_out.not_found

\* an I/O or decode failure happened while the file was read
ReadFailed(f) == ~f.opens \/ f.fail_page # 0

Supported(f) == Lower(f.suffix) \in {<<".","p","d","f">>, <<".","d","o","c","x">>, <<".","t","x","t">>}

\* C12: parse returns either nothing or a record of all seven fields; nothing
\* exactly when extract_text gives empty text, which is so for every
\* unsupported extension and for every I/O or decode failure.
C12_AbsentOrComplete ==
    parsed # NotParsed =>
        /\ parsed = Absent \/ (parsed.kind = "dict" /\ DOMAIN parsed.fields = FieldNames)
        /\ parsed = Absent <=> raw_text = <<>>
        /\ ~Supported(file_path) => raw_text = <<>>
        /\ ReadFailed(file_path) => raw_text = <<>>

\* the job a ranking was just stored for
RankedJob == CHOOSE j \in Job : j.id = ranked.job_id

\* C13: with an empty skill catalog, extract_skills returns "No skills
\* detected" for every text, every stored resume carries that sentinel as its
\* skills, and every candidate of every ranking the application runs gets
\* skill_match 0, whatever the job description.
C13_EmptyCatalogNoSkillMatch ==
    skills = <<>> =>
        /\ \A t \in Descriptions \cup {f.pages[1] : f \in AppFiles} :
              ExtractSkills(skills, t) = NoSkillsDetected
        /\ \A r \in Resume : r.skills = NoSkillsDetected
        /\ \A k \in DOMAIN ranked.items : ranked.items[k].skill_match = 0

\* with an empty catalog, two stored resumes were just ranked against the job
\* description "No skills detected", whose terms are "skills" and "detected"
C13_Witness ==
    /\ skills = <<>>
    /\ ranked.job_id # 0
    /\ Len(ranked.items) = 2
    /\ RankedJob.description = NoSkillsDetected
    /\ \E m \in MatchScore : m.job_id = ranked.job_id

\* the MatchScore rows of a job, as (resume, score) pairs
ScoresOf(job_id) == {<<m.resume_id, m.score>> : m \in {n \in MatchScore : n.job_id = job_id}}

\* C14: with the handlers run one at a time, after any sequence of upload,
\* add-job, rank, delete-resume, delete-job and clear-all requests every
\* MatchScore row refers to a resume and a job that still exist and there is at
\* most one row for each (resume, job) pair; the rows of a job that was just
\* ranked are exactly the scores of that ranking, the earlier ones being gone.
C14_ScoresPartialFunction ==
    /\ \A m \in MatchScore :
          /\ \E r \in Resume : r.id = m.resume_id
          /\ \E j \in Job : j.id = m.job_id
    /\ \A m, n \in MatchScore :
          (m.resume_id = n.resume_id /\ m.job_id = n.job_id) => m = n
    /\ ranked.job_id # 0 =>
          ScoresOf(ranked.job_id) =
              {<<ranked.items[k].id, ranked.items[k].final_score>> : k \in DOMAIN ranked.items}

\* two resumes and two jobs, all four pairs scored, the job just ranked
\* following rankings whose rows are gone: its rows carry the keys 4 and 5
C14_Witness ==
    /\ ranked.job_id # 0
    /\ Cardinality(Resume) = 2 /\ Cardinality(Job) = 2
    /\ Cardinality(MatchScore) = 4
    /\ \A m \in MatchScore : m.job_id = ranked.job_id => m.id > 3
    /\ \E m \in MatchScore : m.score > 0

====
